---- MODULE Spec2Model ----
(***************************************************************************)
(* A model of mizuno, a client of Mercurial's command server.              *)
(*                                                                         *)
(* The repository holds two implementations of Connection:                 *)
(*   src/src/connection.rs  the ConnectionBuilder / CommandIterator one    *)
(*                          (specification Spec), and                      *)
(*   src/src/lib.rs         the blocking one whose run_command returns one *)
(*                          chunk (specification LibSpec).                 *)
(* Both talk to the same subprocess over two pipes, which the model holds  *)
(* as byte sequences.  A byte is a number in 0..255.                       *)
(***************************************************************************)
EXTENDS Integers, Sequences, FiniteSets, TLC

(* ----------------------------- bounds ---------------------------------- *)

\* wire pieces the subprocess emits after its hello
MaxEmits == 2
\* calls of next on one CommandIterator
MaxNexts == 3
\* lines of a hello payload
MaxHelloLines == 3
\* arguments of one command
MaxArgs == 2
\* run_command calls on one connection
MaxCmds == 1
\* run_command calls on one connection that is used again
MaxCmdsReuse == 2

(* ----------------------- bytes of the protocol ------------------------- *)

\* b'o', b'e', b'd', b'r', b'I', b'L': the channel tags of Channel::try_from
b_o == 111
b_e == 101
b_d == 100
b_r == 114
b_I == 73
b_L == 76
\* a byte that is no channel tag ('x')
b_x == 120
\* '\n', ' ', ':', '\r' and the NUL that run_command puts between arguments
b_nl == 10
b_sp == 32
b_colon == 58
b_cr == 13
b_nul == 0
\* a byte that occurs in no UTF-8 text
b_ff == 255

\* "capabilities", "encoding", "runcommand", "getencoding"
s_capabilities == <<99, 97, 112, 97, 98, 105, 108, 105, 116, 105, 101, 115>>
s_encoding == <<101, 110, 99, 111, 100, 105, 110, 103>>
s_runcommand == <<114, 117, 110, 99, 111, 109, 109, 97, 110, 100>>
s_getencoding == <<103, 101, 116, 101, 110, 99, 111, 100, 105, 110, 103>>
\* "UTF-8", "foo", "bar", "frob", "junk"
s_utf8 == <<85, 84, 70, 45, 56>>
s_foo == <<102, 111, 111>>
s_bar == <<98, 97, 114>>
s_frob == <<102, 114, 111, 98>>
s_junk == <<106, 117, 110, 107>>

Pow2_8 == 256
Pow2_16 == 65536
Pow2_24 == 16777216

(* ------------------------- Option and helpers -------------------------- *)

\* Option<T>: None is the empty sequence, Some(v) the sequence <<v>>
None == <<>>
Some(v) == <<v>>

RECURSIVE Concat(_)
\* the concatenation of a sequence of byte sequences
Concat(ss) == IF ss = <<>> THEN <<>> ELSE Head(ss) \o Concat(Tail(ss))

RECURSIVE SeqsUpTo(_, _)
\* the sequences over S of length at most n
SeqsUpTo(S, n) ==
    IF n = 0 THEN {<<>>}
    ELSE LET shorter == SeqsUpTo(S, n - 1)
         IN  shorter \cup {Append(s, x) : s \in shorter, x \in S}

Range(s) == {s[i] : i \in 1..Len(s)}

(* ------------------- byteorder: BigEndian u32 -------------------------- *)

\* BigEndian::read_u32(&bytes).  The frames of the model have lengths and
\* values below 2^31, the numbers TLC can hold.
read_u32(bytes) ==
    bytes[1] * Pow2_24 + bytes[2] * Pow2_16 + bytes[3] * Pow2_8 + bytes[4]

\* write_u32::<BigEndian>(n as u32): the four big-endian bytes of n modulo
\* 2^32.  \div rounds down and % is never negative, so a wrapped usize such
\* as 0 - 1 (written -1 here) gives ff ff ff ff, as the cast does.
write_u32(n) ==
    << (n \div Pow2_24) % Pow2_8, (n \div Pow2_16) % Pow2_8,
       (n \div Pow2_8) % Pow2_8, n % Pow2_8 >>

(* --------------------------- Channel, Chunk ---------------------------- *)

Channels == {"Output", "Error", "Debug", "Result", "Input", "LineInput"}

\* Channel::try_from(c): Ok(channel) or Err(InvalidChannelError { channel: c })
Channel_try_from(c) ==
    CASE c = b_o -> [ok |-> TRUE, channel |-> "Output"]
      [] c = b_e -> [ok |-> TRUE, channel |-> "Error"]
      [] c = b_d -> [ok |-> TRUE, channel |-> "Debug"]
      [] c = b_r -> [ok |-> TRUE, channel |-> "Result"]
      [] c = b_I -> [ok |-> TRUE, channel |-> "Input"]
      [] c = b_L -> [ok |-> TRUE, channel |-> "LineInput"]
      [] OTHER   -> [ok |-> FALSE, channel |-> c]

\* Chunk::Output(buf) | Error(buf) | Debug(buf) | Result(buf): a byte buffer
BufChunk(channel, buf) == [channel |-> channel, buf |-> buf]
\* Chunk::Input(val) | LineInput(val): a u32
IntChunk(channel, val) == [channel |-> channel, val |-> val]
\* Chunk::channel
Chunk_channel(chunk) == chunk.channel

(* ------------------------------ reading -------------------------------- *)

(* read_exact(r, buf) for a buffer of n bytes.  stream is what the pipe    *)
(* holds unread, from is how many of them this frame read has taken, eof   *)
(* whether the writing end is closed.  The read returns the n bytes, or    *)
(* fails with UnexpectedEof having taken what was left, or has not         *)
(* returned yet ("block").                                                 *)
read_exact(stream, from, n, eof) ==
    IF Len(stream) - from >= n
    THEN [st |-> "ok", bytes |-> SubSeq(stream, from + 1, from + n), pos |-> from + n]
    ELSE IF eof
         THEN [st |-> "eof", bytes |-> <<>>, pos |-> Len(stream)]
         ELSE [st |-> "block", bytes |-> <<>>, pos |-> from]

\* the results of a frame read
NoChunk == [channel |-> "none"]
NoError == [kind |-> "none", channel |-> 0]
ReadOk(chunk, consumed) ==
    [st |-> "ok", chunk |-> chunk, err |-> NoError, consumed |-> consumed]
ReadErr(kind, channel, consumed) ==
    [st |-> "err", chunk |-> NoChunk,
     err |-> [kind |-> kind, channel |-> channel], consumed |-> consumed]
ReadBlocked == [st |-> "block", chunk |-> NoChunk, err |-> NoError, consumed |-> 0]

\* ReadChunkError::ReadChannel, ReadLength, ReadData, InvalidChannel
ReadChunkErrorKinds == {"ReadChannel", "ReadLength", "ReadData", "InvalidChannel"}

\* read_buf_chunk with the label of the payload read on the read of the length
read_buf_chunk_one_label(stream, channel, from, eof) ==
    LET l == read_exact(stream, from, 4, eof)
    IN  IF l.st = "block" THEN ReadBlocked
        ELSE IF l.st = "eof" THEN ReadErr("ReadData", 0, l.pos)
        ELSE LET len == read_u32(l.bytes)
                 d == read_exact(stream, l.pos, len, eof)
             IN  IF d.st = "block" THEN ReadBlocked
                 ELSE IF d.st = "eof" THEN ReadErr("ReadData", 0, d.pos)
                 ELSE ReadOk(BufChunk(channel, d.bytes), d.pos)

\* the Output | Error | Debug | Result arm of read_chunk_from: a length, then
\* that many bytes
read_buf_chunk(stream, channel, from, eof) ==
    LET l == read_exact(stream, from, 4, eof)
    IN  IF l.st = "block" THEN ReadBlocked
        ELSE IF l.st = "eof" THEN ReadErr("ReadLength", 0, l.pos)
        ELSE LET len == read_u32(l.bytes)
                 d == read_exact(stream, l.pos, len, eof)
             IN  IF d.st = "block" THEN ReadBlocked
                 ELSE IF d.st = "eof" THEN ReadErr("ReadData", 0, d.pos)
                 ELSE ReadOk(BufChunk(channel, d.bytes), d.pos)

\* the Input | LineInput arm of read_chunk_from: four bytes, a u32
read_int_chunk(stream, channel, from, eof) ==
    LET v == read_exact(stream, from, 4, eof)
    IN  IF v.st = "block" THEN ReadBlocked
        ELSE IF v.st = "eof" THEN ReadErr("ReadData", 0, v.pos)
        ELSE ReadOk(IntChunk(channel, read_u32(v.bytes)), v.pos)

\* Connection::read_chunk_from(r) of connection.rs
read_chunk_from(stream, eof) ==
    LET t == read_exact(stream, 0, 1, eof)
    IN  IF t.st = "block" THEN ReadBlocked
        ELSE IF t.st = "eof" THEN ReadErr("ReadChannel", 0, t.pos)
        ELSE LET c == Channel_try_from(t.bytes[1])
             IN  IF ~c.ok THEN ReadErr("InvalidChannel", c.channel, t.pos)
                 ELSE IF c.channel \in {"Output", "Error", "Debug", "Result"}
                      THEN read_buf_chunk(stream, c.channel, t.pos, eof)
                      ELSE read_int_chunk(stream, c.channel, t.pos, eof)

(* ------------------------------ Capability ----------------------------- *)

RunCommand == [kind |-> "RunCommand", text |-> <<>>]
GetEncoding == [kind |-> "GetEncoding", text |-> <<>>]
Unknown(s) == [kind |-> "Unknown", text |-> s]

\* Capability_from that keeps no text of a token it does not know
Capability_from_textless(s) ==
    CASE s = s_runcommand  -> RunCommand
      [] s = s_getencoding -> GetEncoding
      [] OTHER             -> Unknown(<<>>)

\* the CAPABILITIES map that build.rs generates, and From<S> for Capability
Capability_from(s) ==
    CASE s = s_runcommand  -> RunCommand
      [] s = s_getencoding -> GetEncoding
      [] OTHER             -> Unknown(s)

(* ------------------------------ parse_hello ---------------------------- *)

\* str::from_utf8 succeeds.  The hello payloads of the model are ASCII text
\* or hold the byte ff, which no UTF-8 text holds; a byte from 80 to fe is
\* not decided here and is never drawn.
from_utf8_ok(bytes) == \A i \in 1..Len(bytes) : bytes[i] < 128

\* the first index at or after i where pat occurs in s, 0 when it does not
RECURSIVE find_from(_, _, _)
find_from(s, pat, i) ==
    IF i + Len(pat) - 1 > Len(s) THEN 0
    ELSE IF SubSeq(s, i, i + Len(pat) - 1) = pat THEN i
    ELSE find_from(s, pat, i + 1)

\* str::find(pat): None, or the position (counted from 1) of the first match
find(s, pat) == find_from(s, pat, 1)

\* str::split(sep) for a one-byte separator: every piece, the empty ones too
RECURSIVE split(_, _)
split(s, sep) ==
    LET i == find(s, <<sep>>)
    IN  IF i = 0 THEN <<s>>
        ELSE <<SubSeq(s, 1, i - 1)>> \o split(SubSeq(s, i + 1, Len(s)), sep)

\* a line without the "\r" that may end it
strip_cr(line) ==
    IF Len(line) > 0 /\ line[Len(line)] = b_cr
    THEN SubSeq(line, 1, Len(line) - 1)
    ELSE line

\* str::lines: the pieces between "\n", each without its final "\r"; the
\* empty piece after a final "\n" is no line
lines(s) ==
    LET pieces == split(s, b_nl)
        kept == IF pieces[Len(pieces)] = <<>>
                THEN SubSeq(pieces, 1, Len(pieces) - 1)
                ELSE pieces
    IN  [i \in 1..Len(kept) |-> strip_cr(kept[i])]

\* hello_line where a line with another key makes the encoding forgotten
hello_line_forgetful(acc, line) ==
    LET split_at == find(line, <<b_colon, b_sp>>)
    IN  IF split_at = 0 THEN acc
        ELSE LET key == SubSeq(line, 1, split_at - 1)
                 value == SubSeq(line, split_at + 2, Len(line))
             IN  CASE key = s_capabilities ->
                        [acc EXCEPT !.capabilities =
                            Some({Capability_from(t) : t \in Range(split(value, b_sp))})]
                   [] key = s_encoding ->
                        [acc EXCEPT !.encoding = Some(value)]
                   [] OTHER -> [acc EXCEPT !.encoding = None]

\* one turn of the loop of parse_hello: acc is (encoding, capabilities),
\* both Option
hello_line(acc, line) ==
    LET split_at == find(line, <<b_colon, b_sp>>)
    IN  IF split_at = 0 THEN acc
        ELSE LET key == SubSeq(line, 1, split_at - 1)
                 value == SubSeq(line, split_at + 2, Len(line))
             IN  CASE key = s_capabilities ->
                        [acc EXCEPT !.capabilities =
                            Some({Capability_from(t) : t \in Range(split(value, b_sp))})]
                   [] key = s_encoding ->
                        [acc EXCEPT !.encoding = Some(value)]
                   [] OTHER -> acc

RECURSIVE hello_lines(_, _)
\* the loop of parse_hello over the lines in order
hello_lines(acc, ls) ==
    IF ls = <<>> THEN acc
    ELSE hello_lines(hello_line(acc, Head(ls)), Tail(ls))

HelloOk(encoding, capabilities) ==
    [ok |-> TRUE, err |-> "none", channel |-> "none",
     encoding |-> encoding, capabilities |-> capabilities]
HelloErr(err, channel) ==
    [ok |-> FALSE, err |-> err, channel |-> channel,
     encoding |-> <<>>, capabilities |-> {}]

\* hello_result with the test of the capabilities before that of the encoding
hello_result_capabilities_first(acc) ==
    IF acc.capabilities = None THEN HelloErr("NoCapabilities", "none")
    ELSE IF acc.encoding = None THEN HelloErr("NoEncoding", "none")
    ELSE IF RunCommand \notin acc.capabilities[1]
         THEN HelloErr("MissingRunCommand", "none")
         ELSE HelloOk(acc.encoding[1], acc.capabilities[1])

\* hello_result without the test for RunCommand
hello_result_no_gate(acc) ==
    IF acc.encoding = None THEN HelloErr("NoEncoding", "none")
    ELSE IF acc.capabilities = None THEN HelloErr("NoCapabilities", "none")
    ELSE HelloOk(acc.encoding[1], acc.capabilities[1])

\* the end of parse_hello: both fields are there and RunCommand is among
\* the capabilities
hello_result(acc) ==
    IF acc.encoding = None THEN HelloErr("NoEncoding", "none")
    ELSE IF acc.capabilities = None THEN HelloErr("NoCapabilities", "none")
    ELSE IF RunCommand \notin acc.capabilities[1]
         THEN HelloErr("MissingRunCommand", "none")
         ELSE HelloOk(acc.encoding[1], acc.capabilities[1])

\* Connection::parse_hello(chunk)
parse_hello(chunk) ==
    IF Chunk_channel(chunk) # "Output"
    THEN HelloErr("InvalidChannel", Chunk_channel(chunk))
    ELSE IF ~from_utf8_ok(chunk.buf) THEN HelloErr("DecodeError", "none")
    ELSE hello_result(hello_lines([encoding |-> None, capabilities |-> None],
                                  lines(chunk.buf)))

(* ------------------------- what the subprocess sends ------------------- *)

\* a frame on the wire: the tag, the length, the payload
Frame(tag, payload) == <<tag>> \o write_u32(Len(payload)) \o payload
\* a frame of the Input and LineInput channels: the tag and a u32
IntFrame(tag, val) == <<tag>> \o write_u32(val)

\* "capabilities: runcommand getencoding", "capabilities: getencoding",
\* "capabilities: frob runcommand", "encoding: UTF-8", "foo: bar", "junk"
HelloLines ==
    { s_capabilities \o <<b_colon, b_sp>> \o s_runcommand \o <<b_sp>> \o s_getencoding,
      s_capabilities \o <<b_colon, b_sp>> \o s_getencoding,
      s_capabilities \o <<b_colon, b_sp>> \o s_frob \o <<b_sp>> \o s_runcommand,
      s_encoding \o <<b_colon, b_sp>> \o s_utf8,
      s_foo \o <<b_colon, b_sp>> \o s_bar,
      s_junk }

\* the lines, each ended by "\n"
HelloPayload(ls) == Concat([i \in 1..Len(ls) |-> ls[i] \o <<b_nl>>])
HelloPayloads == {HelloPayload(ls) : ls \in SeqsUpTo(HelloLines, MaxHelloLines)}

\* what a subprocess may send first: a hello on the output channel, a hello
\* on another channel, a payload that is no UTF-8, a tag that is no channel,
\* a frame cut short, a frame of the input channel
HelloWires ==
    {Frame(b_o, p) : p \in HelloPayloads}
    \cup {Frame(b_e, s_junk), Frame(b_r, <<0, 0, 0, 0>>), IntFrame(b_I, 1),
          Frame(b_d, <<97>>), IntFrame(b_L, 2),
          Frame(b_o, <<b_ff>>), <<b_x>>, <<b_o, 0, 0>>, <<b_o, 0, 0, 0, 2, 97>>}

\* what it may send afterwards: whole frames of every channel, the result
\* frame as Mercurial sends it (a length of 4 and the status) and as five
\* bytes, a tag that is no channel, and frames cut short at every stage
Wires ==
    { Frame(b_o, <<97>>), Frame(b_e, <<97, 98>>), Frame(b_d, <<97>>),
      Frame(b_r, <<0, 0, 0, 0>>), <<b_r, 0, 0, 0, 0>>,
      IntFrame(b_I, 1), IntFrame(b_L, 2),
      <<b_x>>, <<b_e, 0, 0>>, <<b_d, 0, 0, 0, 2, 97>>, <<b_I, 0>> }

\* the arguments of commands: "a", "st"
Args == {<<97>>, <<115, 116>>}
Commands == SeqsUpTo(Args, MaxArgs)

(* -------------------------------- state -------------------------------- *)

VARIABLES
    pc,            \* where the client is: "start", "hello" (spawned, the hello
                   \* not read yet), "connected", "reading" (lib.rs: in the read
                   \* of run_command), "failed", "dropped", "panicked"
    out,           \* the bytes the subprocess wrote to its stdout, not read yet
    exited,        \* the subprocess has exited: its end of the pipes is closed
    sent,          \* the wire pieces the subprocess has written
    owner,         \* who holds the Child: "none", "builder", "connection", "nobody"
    kills,         \* the terminate signals issued (Child::kill)
    encoding,      \* Connection.encoding, None before construction
    capabilities,  \* Connection.capabilities, None before construction
    helloErr,      \* the error of a failed construction, "none" otherwise
    helloChannel,  \* the channel that error names, "none" when it names none
    helloReads,    \* the frame reads construction has made
    iter,          \* the CommandIterator: whether one is live, and its finished
    items,         \* what the calls of next on the live iterator returned
    lastRead,      \* the last frame read since the last run_command: who made
                   \* it, the bytes it took, whether the stream had ended, the
                   \* result
    lastCmd,       \* the run_command that has just returned, until the next
                   \* operation on the connection or the next write of the
                   \* subprocess: its arguments, its result, the bytes on stdin
    cmds,          \* the run_command calls made
    stale          \* how many of the bytes of out the subprocess had written
                   \* before the last run_command was called

vars == <<pc, out, exited, sent, owner, kills, encoding, capabilities,
          helloErr, helloChannel, helloReads, iter, items, lastRead, lastCmd,
          cmds, stale>>

\* no CommandIterator borrows the connection
NoIter == [live |-> FALSE, finished |-> FALSE]
\* CommandIterator::new
CommandIterator_new == [live |-> TRUE, finished |-> FALSE]
NoRead == [by |-> "none", taken |-> <<>>, eof |-> FALSE, res |-> ReadBlocked]
\* the record of a frame read by `by` on stream with result res
FrameRead(by, stream, eof, res) ==
    [by |-> by, taken |-> SubSeq(stream, 1, res.consumed), eof |-> eof, res |-> res]
NoCmd == [cmd |-> <<>>, ret |-> "none", wrote |-> <<>>]

Init ==
    /\ pc = "start"
    /\ out = <<>>
    /\ exited = FALSE
    /\ sent = 0
    /\ owner = "none"
    /\ kills = 0
    /\ encoding = None
    /\ capabilities = None
    /\ helloErr = "none"
    /\ helloChannel = "none"
    /\ helloReads = 0
    /\ iter = NoIter
    /\ items = <<>>
    /\ lastRead = NoRead
    /\ lastCmd = NoCmd
    /\ cmds = 0
    /\ stale = 0

\* Consume that loses the byte after those a read took
Consume_one_more(stream, n) == SubSeq(stream, n + 2, Len(stream))

\* the stream without the n bytes a read took
Consume(stream, n) == SubSeq(stream, n + 1, Len(stream))

\* of the n bytes at the front of the stream that were written before the
\* last run_command, those left when a read has taken `consumed` bytes
stale_after(n, consumed) == IF consumed >= n THEN 0 ELSE n - consumed

(* ---------------------------- the subprocess --------------------------- *)

\* the subprocess writes its first bytes
ServerHello ==
    /\ owner # "none" /\ ~exited /\ sent = 0
    /\ \E w \in HelloWires : out' = out \o w
    /\ sent' = 1
    /\ UNCHANGED <<pc, exited, owner, kills, encoding, capabilities, helloErr,
                   helloChannel, helloReads, iter, items, lastRead, lastCmd, cmds, stale>>

(* The subprocess answers: it takes what stdin holds and writes a piece.   *)
(* A command server writes nothing after its hello until a first command  *)
(* has reached it; from then on it may write whatever it likes.           *)
ServerEmit ==
    /\ owner = "connection" /\ ~exited /\ sent >= 1 /\ sent <= MaxEmits
    /\ cmds > 0
    /\ \E w \in Wires : out' = out \o w
    /\ sent' = sent + 1
    /\ lastCmd' = NoCmd
    /\ UNCHANGED <<pc, exited, owner, kills, encoding, capabilities, helloErr,
                   helloChannel, helloReads, iter, items, lastRead, cmds, stale>>

\* the subprocess exits by itself
ServerExit ==
    /\ owner # "none" /\ ~exited
    /\ exited' = TRUE
    /\ UNCHANGED <<pc, out, sent, owner, kills, encoding, capabilities, helloErr,
                   helloChannel, helloReads, iter, items, lastRead, lastCmd, cmds, stale>>

(* ------------------- connection.rs: construction, drop ----------------- *)

\* Child::kill(): Ok while the subprocess runs, an error once it has exited
kill_result(hasExited) == IF hasExited THEN "Err" ELSE "Ok"

\* Drop for Connection: self.hg.kill().unwrap_or(()) issues the signal and
\* turns either result into ()
Connection_drop_result(hasExited) ==
    IF kill_result(hasExited) = "Ok" THEN "unit" ELSE "unit"

\* from_builder_spawn giving a Connection at once, without reading a hello
from_builder_spawn_no_hello ==
    /\ pc = "start"
    /\ pc' = "connected"
    /\ owner' = "connection"
    /\ encoding' = Some(s_utf8)
    /\ capabilities' = Some({RunCommand})
    /\ UNCHANGED <<out, exited, sent, kills, helloErr, helloChannel,
                   helloReads, iter, items, lastRead, lastCmd, cmds, stale>>

\* from_builder up to the spawn: spawn_async fails (ConnectionError::Io, no
\* subprocess) or gives the Child and its two pipes
from_builder_spawn ==
    /\ pc = "start"
    /\ \E spawned \in BOOLEAN :
          IF spawned
          THEN /\ pc' = "hello"
               /\ owner' = "builder"
               /\ helloErr' = helloErr
          ELSE /\ pc' = "failed"
               /\ owner' = owner
               /\ helloErr' = "Io"
    /\ UNCHANGED <<out, exited, sent, kills, encoding, capabilities,
                   helloChannel, helloReads, iter, items, lastRead, lastCmd,
                   cmds, stale>>

\* what from_builder makes of the frame read: the error of the read, the
\* error of parse_hello, or the two negotiated values
hello_outcome(res) ==
    IF res.st = "err" THEN HelloErr("ReadChunk", "none")
    ELSE parse_hello(res.chunk)

(* from_builder from the read of the hello on: one read_chunk_from, then   *)
(* parse_hello.  On an error the closure that owns hg is dropped; hg is a  *)
(* tokio_process::Child, whose drop kills the subprocess.                  *)
from_builder_hello ==
    /\ pc = "hello"
    /\ LET res == read_chunk_from(out, exited)
           h == hello_outcome(res)
       IN  /\ res.st # "block"
           /\ out' = Consume(out, res.consumed)
           /\ helloReads' = helloReads + 1
           /\ IF h.ok
              THEN /\ pc' = "connected"
                   /\ owner' = "connection"
                   /\ encoding' = Some(h.encoding)
                   /\ capabilities' = Some(h.capabilities)
                   /\ UNCHANGED <<helloErr, helloChannel, kills, exited>>
              ELSE /\ pc' = "failed"
                   /\ owner' = "nobody"
                   /\ helloErr' = h.err
                   /\ helloChannel' = h.channel
                   /\ kills' = kills + 1
                   /\ exited' = TRUE
                   /\ UNCHANGED <<encoding, capabilities>>
    /\ UNCHANGED <<sent, iter, items, lastRead, lastCmd, cmds, stale>>

\* the Connection goes out of scope (its iterator, which borrows it, first);
\* its ends of the pipes are closed and what stdout still held is gone
Connection_drop ==
    /\ pc = "connected"
    /\ Connection_drop_result(exited) = "unit"
    /\ pc' = "dropped"
    /\ owner' = "nobody"
    /\ kills' = kills + 1
    /\ exited' = TRUE
    /\ iter' = NoIter
    /\ items' = <<>>
    /\ out' = <<>>
    /\ stale' = 0
    /\ lastCmd' = NoCmd
    /\ UNCHANGED <<sent, encoding, capabilities, helloErr, helloChannel,
                   helloReads, lastRead, cmds>>

(* ------------------------ connection.rs: run_command ------------------- *)

RECURSIVE sum_len(_)
\* command.iter().map(|s| s.len()).sum::<usize>()
sum_len(command) ==
    IF command = <<>> THEN 0 ELSE Len(Head(command)) + sum_len(Tail(command))

\* let len: usize = sum + command.len() - 1.  The usize 0 - 1 is written -1:
\* a build with overflow checks panics there, one without goes on with the
\* wrapped value, which write_u32 casts as the code does.
command_len(command) == sum_len(command) + Len(command) - 1

\* the writes of run_command in order: the line, the length, then each part
\* and, but for the last part, a NUL
command_writes(command) ==
    << s_runcommand \o <<b_nl>>, write_u32(command_len(command)) >>
    \o Concat([i \in 1..Len(command) |->
                 IF i + 1 # Len(command) + 1
                 THEN <<command[i], <<b_nul>>>>
                 ELSE <<command[i]>>])

\* the writes that can fail: a write of no bytes never reaches the pipe
CanFailAt(ws) == {i \in 1..Len(ws) : ws[i] # <<>>}

\* run_command that hands out the iterator whether or not a write failed
run_command_writes_unchecked(command, failAt) ==
    LET ws == command_writes(command)
        done == IF failAt = 0 THEN ws ELSE SubSeq(ws, 1, failAt - 1)
    IN  /\ lastCmd' = [cmd |-> command,
                       ret |-> IF failAt = 0 THEN "Ok" ELSE "Err",
                       wrote |-> Concat(done)]
        /\ iter' = CommandIterator_new
        /\ items' = <<>>
        /\ exited' = (exited \/ failAt # 0)
        /\ UNCHANGED <<pc, owner, kills>>

(* run_command(command).  failAt = 0: every write succeeds.  Otherwise the *)
(* write failAt fails (the subprocess is gone by then) and ? returns the   *)
(* error, the earlier writes having been made.                             *)
run_command_writes(command, failAt) ==
    LET ws == command_writes(command)
        done == IF failAt = 0 THEN ws ELSE SubSeq(ws, 1, failAt - 1)
    IN  /\ lastCmd' = [cmd |-> command,
                       ret |-> IF failAt = 0 THEN "Ok" ELSE "Err",
                       wrote |-> Concat(done)]
        /\ iter' = IF failAt = 0 THEN CommandIterator_new ELSE iter
        /\ items' = <<>>
        /\ exited' = (exited \/ failAt # 0)
        /\ UNCHANGED <<pc, owner, kills>>

\* the panic of the length computation; unwinding drops the Connection
run_command_panic(command) ==
    /\ pc' = "panicked"
    /\ owner' = "nobody"
    /\ kills' = kills + 1
    /\ exited' = TRUE
    /\ lastCmd' = [cmd |-> command, ret |-> "panic", wrote |-> <<>>]
    /\ UNCHANGED <<iter, items>>

\* run_command on a Connection that has had fewer than max calls of it
run_command_upto(max) ==
    /\ pc = "connected" /\ ~iter.live /\ cmds < max
    /\ cmds' = cmds + 1
    /\ stale' = Len(out)
    /\ \E command \in Commands :
          \/ /\ command_len(command) < 0
             /\ run_command_panic(command)
          \/ \E failAt \in {0} \cup CanFailAt(command_writes(command)) :
                /\ exited => failAt = 1
                /\ run_command_writes(command, failAt)
    /\ lastRead' = NoRead
    /\ UNCHANGED <<out, sent, encoding, capabilities, helloErr, helloChannel,
                   helloReads>>

\* Connection::run_command
run_command == run_command_upto(MaxCmds)

\* Connection::run_command on a Connection that is used for several commands
run_command_again == run_command_upto(MaxCmdsReuse)

(* ------------------ connection.rs: read_chunk, the iterator ------------ *)

\* read_chunk that also empties the capability set
read_chunk_renegotiating ==
    /\ pc = "connected" /\ ~iter.live
    /\ LET res == read_chunk_from(out, exited)
       IN  /\ res.st # "block"
           /\ out' = Consume(out, res.consumed)
           /\ lastRead' = FrameRead("read_chunk", out, exited, res)
           /\ stale' = stale_after(stale, res.consumed)
    /\ lastCmd' = NoCmd
    /\ capabilities' = Some({})
    /\ UNCHANGED <<pc, exited, sent, owner, kills, encoding,
                   helloErr, helloChannel, helloReads, iter, items, cmds>>

\* Connection::read_chunk
read_chunk ==
    /\ pc = "connected" /\ ~iter.live
    /\ LET res == read_chunk_from(out, exited)
       IN  /\ res.st # "block"
           /\ out' = Consume(out, res.consumed)
           /\ lastRead' = FrameRead("read_chunk", out, exited, res)
           /\ stale' = stale_after(stale, res.consumed)
    /\ lastCmd' = NoCmd
    /\ UNCHANGED <<pc, exited, sent, owner, kills, encoding, capabilities,
                   helloErr, helloChannel, helloReads, iter, items, cmds>>

\* what one call of next returned: None, Some(Ok(chunk)) or Some(Err(e)),
\* with the channel of the chunk or the kind of the error, whether the call
\* read the stream, and how many bytes the stream still held afterwards
Item(ret, what, read, left) == [ret |-> ret, what |-> what, read |-> read, left |-> left]

\* self.finished after next has read chunk
finished_after(finished, chunk) ==
    IF Chunk_channel(chunk) = "Result" THEN TRUE ELSE finished

\* self.finished after next has got an error from read_chunk: the error is
\* returned at once
finished_after_error(finished) == finished

\* next_reads without the test of self.finished
next_reads_always(it) == TRUE

\* next reads the stream: not when self.finished
next_reads(it) == ~it.finished

\* CommandIterator::next
CommandIterator_next ==
    /\ pc = "connected" /\ iter.live /\ Len(items) < MaxNexts
    /\ IF ~next_reads(iter)
       THEN /\ items' = Append(items, Item("None", "none", FALSE, Len(out)))
            /\ UNCHANGED <<out, iter, lastRead, stale>>
       ELSE LET res == read_chunk_from(out, exited)
            IN  /\ res.st # "block"
                /\ out' = Consume(out, res.consumed)
                /\ stale' = stale_after(stale, res.consumed)
                /\ lastRead' = FrameRead("next", out, exited, res)
                /\ items' = Append(items,
                      IF res.st = "ok"
                      THEN Item("Ok", Chunk_channel(res.chunk), TRUE,
                                Len(out) - res.consumed)
                      ELSE Item("Err", res.err.kind, TRUE,
                                Len(out) - res.consumed))
                /\ iter' = [iter EXCEPT !.finished =
                             IF res.st = "ok"
                             THEN finished_after(iter.finished, res.chunk)
                             ELSE finished_after_error(iter.finished)]
    /\ lastCmd' = NoCmd
    /\ UNCHANGED <<pc, exited, sent, owner, kills, encoding, capabilities,
                   helloErr, helloChannel, helloReads, cmds>>

\* the CommandIterator goes out of scope, drained or not
CommandIterator_drop ==
    /\ pc = "connected" /\ iter.live
    /\ iter' = NoIter
    /\ items' = <<>>
    /\ lastCmd' = NoCmd
    /\ UNCHANGED <<pc, out, exited, sent, owner, kills, encoding, capabilities,
                   helloErr, helloChannel, helloReads, lastRead, cmds, stale>>

Next ==
    \/ ServerHello
    \/ ServerEmit
    \/ ServerExit
    \/ from_builder_spawn
    \/ from_builder_hello
    \/ Connection_drop
    \/ run_command
    \/ read_chunk
    \/ CommandIterator_next
    \/ CommandIterator_drop

Spec == Init /\ [][Next]_vars

(* The same program with a client that runs one command after another on   *)
(* the Connection.                                                         *)
ReuseNext ==
    \/ ServerHello
    \/ ServerEmit
    \/ ServerExit
    \/ from_builder_spawn
    \/ from_builder_hello
    \/ Connection_drop
    \/ run_command_again
    \/ read_chunk
    \/ CommandIterator_next
    \/ CommandIterator_drop

ReuseSpec == Init /\ [][ReuseNext]_vars

(* ================================ lib.rs =============================== *)

\* Chunk::Result(u32) of lib.rs
lib_ResultChunk(val) == IntChunk("Result", val)

\* a frame read of lib.rs that ended in panic!() or unimplemented!()
ReadPanic(consumed) ==
    [st |-> "panic", chunk |-> NoChunk, err |-> NoError, consumed |-> consumed]

\* the b'o' and b'e' arms of read_chunk_from of lib.rs: read_u32, vec![0; len],
\* read_exact; an error of either read is returned by ?
lib_read_buf_chunk(stream, channel, from, eof) ==
    LET l == read_exact(stream, from, 4, eof)
    IN  IF l.st = "block" THEN ReadBlocked
        ELSE IF l.st = "eof" THEN ReadErr("Io", 0, l.pos)
        ELSE LET len == read_u32(l.bytes)
                 d == read_exact(stream, l.pos, len, eof)
             IN  IF d.st = "block" THEN ReadBlocked
                 ELSE IF d.st = "eof" THEN ReadErr("Io", 0, d.pos)
                 ELSE ReadOk(BufChunk(channel, d.bytes), d.pos)

\* the b'r' arm: Chunk::Result(r.read_u32::<BigEndian>()?)
lib_read_result_chunk(stream, from, eof) ==
    LET v == read_exact(stream, from, 4, eof)
    IN  IF v.st = "block" THEN ReadBlocked
        ELSE IF v.st = "eof" THEN ReadErr("Io", 0, v.pos)
        ELSE ReadOk(lib_ResultChunk(read_u32(v.bytes)), v.pos)

\* Connection::read_chunk_from(r) of lib.rs
lib_read_chunk_from(stream, eof) ==
    LET t == read_exact(stream, 0, 1, eof)
    IN  IF t.st = "block" THEN ReadBlocked
        ELSE IF t.st = "eof" THEN ReadErr("Io", 0, t.pos)
        ELSE LET channel == t.bytes[1]
             IN  CASE channel = b_o -> lib_read_buf_chunk(stream, "Output", t.pos, eof)
                   [] channel = b_e -> lib_read_buf_chunk(stream, "Error", t.pos, eof)
                   [] channel = b_r -> lib_read_result_chunk(stream, t.pos, eof)
                   [] channel \in {b_d, b_I, b_L} -> ReadPanic(t.pos)
                   [] OTHER -> ReadPanic(t.pos)

\* one turn of the loop of Connection::new of lib.rs: a line without ": " is
\* an error ("no field: value in hello")
lib_hello_line(acc, line) ==
    IF find(line, <<b_colon, b_sp>>) = 0
    THEN [acc EXCEPT !.err = "no field: value in hello"]
    ELSE [hello_line(acc, line) EXCEPT !.err = acc.err]

RECURSIVE lib_hello_lines(_, _)
\* the loop over the lines; ? leaves it at the first error
lib_hello_lines(acc, ls) ==
    IF ls = <<>> \/ acc.err # "none" THEN acc
    ELSE lib_hello_lines(lib_hello_line(acc, Head(ls)), Tail(ls))

\* Connection::new of lib.rs from the chunk it has read
lib_parse_hello(chunk) ==
    IF Chunk_channel(chunk) # "Output"
    THEN HelloErr("invalid chunk in hello", "none")
    ELSE IF ~from_utf8_ok(chunk.buf) THEN HelloErr("Utf8Error", "none")
    ELSE LET acc == lib_hello_lines(
                        [encoding |-> None, capabilities |-> None, err |-> "none"],
                        lines(chunk.buf))
         IN  IF acc.err # "none" THEN HelloErr(acc.err, "none")
             ELSE IF acc.encoding = None THEN HelloErr("no encoding in hello", "none")
             ELSE IF acc.capabilities = None
                  THEN HelloErr("no capabilities in hello", "none")
             ELSE IF RunCommand \notin acc.capabilities[1]
                  THEN HelloErr("No runcommand capability", "none")
                  ELSE HelloOk(acc.encoding[1], acc.capabilities[1])

\* Connection::start_hg: spawn fails ("Could not launch hg") or gives the Child
lib_start_hg ==
    /\ pc = "start"
    /\ \E spawned \in BOOLEAN :
          IF spawned
          THEN /\ pc' = "hello"
               /\ owner' = "builder"
               /\ helloErr' = helloErr
          ELSE /\ pc' = "failed"
               /\ owner' = owner
               /\ helloErr' = "Could not launch hg"
    /\ UNCHANGED <<out, exited, sent, kills, encoding, capabilities,
                   helloChannel, helloReads, iter, items, lastRead, lastCmd,
                   cmds, stale>>

(* Connection::new of lib.rs after start_hg.  hg is a local                *)
(* std::process::Child: on every return of an error, and when              *)
(* read_chunk_from panics, it goes out of scope, and dropping a            *)
(* std::process::Child neither kills nor waits for the subprocess.         *)
lib_new ==
    /\ pc = "hello"
    /\ LET res == lib_read_chunk_from(out, exited)
           h == IF res.st = "ok" THEN lib_parse_hello(res.chunk)
                ELSE HelloErr("Could not read hello", "none")
       IN  /\ res.st # "block"
           /\ out' = Consume(out, res.consumed)
           /\ helloReads' = helloReads + 1
           /\ IF res.st = "panic"
              THEN /\ pc' = "panicked"
                   /\ owner' = "nobody"
                   /\ UNCHANGED <<encoding, capabilities, helloErr, helloChannel>>
              ELSE IF h.ok
              THEN /\ pc' = "connected"
                   /\ owner' = "connection"
                   /\ encoding' = Some(h.encoding)
                   /\ capabilities' = Some(h.capabilities)
                   /\ UNCHANGED <<helloErr, helloChannel>>
              ELSE /\ pc' = "failed"
                   /\ owner' = "nobody"
                   /\ helloErr' = h.err
                   /\ helloChannel' = h.channel
                   /\ UNCHANGED <<encoding, capabilities>>
    /\ UNCHANGED <<exited, kills, sent, iter, items, lastRead, lastCmd, cmds, stale>>

\* Drop for Connection of lib.rs: self.hg.kill().unwrap_or(())
lib_Connection_drop ==
    /\ pc \in {"connected", "reading"}
    /\ Connection_drop_result(exited) = "unit"
    /\ pc' = "dropped"
    /\ owner' = "nobody"
    /\ kills' = kills + 1
    /\ exited' = TRUE
    /\ out' = <<>>
    /\ stale' = 0
    /\ lastCmd' = NoCmd
    /\ UNCHANGED <<sent, encoding, capabilities, helloErr, helloChannel,
                   helloReads, iter, items, lastRead, cmds>>

(* run_command of lib.rs up to its read: the same length and the same      *)
(* writes as in connection.rs.  A panic unwinds through the caller, which  *)
(* owns the Connection: its Drop runs.                                     *)
lib_run_command ==
    /\ pc = "connected" /\ cmds < MaxCmds
    /\ cmds' = cmds + 1
    /\ stale' = Len(out)
    /\ \E command \in Commands :
          \/ /\ command_len(command) < 0
             /\ pc' = "panicked"
             /\ owner' = "nobody"
             /\ kills' = kills + 1
             /\ exited' = TRUE
             /\ lastCmd' = [cmd |-> command, ret |-> "panic", wrote |-> <<>>]
          \/ \E failAt \in {0} \cup CanFailAt(command_writes(command)) :
                LET ws == command_writes(command)
                    done == IF failAt = 0 THEN ws ELSE SubSeq(ws, 1, failAt - 1)
                IN  /\ exited => failAt = 1
                    /\ lastCmd' = [cmd |-> command,
                                   ret |-> IF failAt = 0 THEN "Ok" ELSE "Err",
                                   wrote |-> Concat(done)]
                    /\ pc' = IF failAt = 0 THEN "reading" ELSE pc
                    /\ exited' = (exited \/ failAt # 0)
                    /\ UNCHANGED <<owner, kills>>
    /\ lastRead' = NoRead
    /\ UNCHANGED <<out, sent, encoding, capabilities, helloErr, helloChannel,
                   helloReads, iter, items>>

\* a frame read on an established connection of lib.rs, made by `by`
lib_frame_read(by) ==
    LET res == lib_read_chunk_from(out, exited)
    IN  /\ res.st # "block"
        /\ out' = Consume(out, res.consumed)
        /\ lastRead' = FrameRead(by, out, exited, res)
        /\ stale' = stale_after(stale, res.consumed)
        /\ IF res.st = "panic"
           THEN /\ pc' = "panicked"
                /\ owner' = "nobody"
                /\ kills' = kills + 1
                /\ exited' = TRUE
           ELSE /\ pc' = "connected"
                /\ UNCHANGED <<owner, kills, exited>>

\* the end of run_command of lib.rs: one read_chunk_from, whose result it returns
lib_run_command_read ==
    /\ pc = "reading"
    /\ lib_frame_read("run_command")
    /\ UNCHANGED <<sent, encoding, capabilities, helloErr,
                   helloChannel, helloReads, iter, items, lastCmd, cmds>>

\* Connection::read_chunk of lib.rs
lib_read_chunk ==
    /\ pc = "connected"
    /\ lib_frame_read("read_chunk")
    /\ lastCmd' = NoCmd
    /\ UNCHANGED <<sent, encoding, capabilities, helloErr,
                   helloChannel, helloReads, iter, items, cmds>>

LibNext ==
    \/ ServerHello
    \/ ServerEmit
    \/ ServerExit
    \/ lib_start_hg
    \/ lib_new
    \/ lib_Connection_drop
    \/ lib_run_command
    \/ lib_run_command_read
    \/ lib_read_chunk

LibSpec == Init /\ [][LibNext]_vars

(* ================================ claims =============================== *)

IsPrefix(p, s) == Len(p) <= Len(s) /\ SubSeq(s, 1, Len(p)) = p

\* the item i of the live iterator is a chunk of the Result channel
IsResultItem(i) == items[i].ret = "Ok" /\ items[i].what = "Result"

(* C1: the Response Sequence yields chunks up to and including the first   *)
(* Result chunk; every call of next after a Result chunk returns None and  *)
(* reads nothing from the stream, whatever the stream still holds; and     *)
(* None is returned only after a Result chunk.                             *)
C1_ResultEndsSequence ==
    \A j \in 1..Len(items) :
        /\ \A i \in 1..(j - 1) :
              IsResultItem(i)
                 => /\ items[j].ret = "None"
                    /\ ~items[j].read
                    /\ items[j].left >= items[i].left
        /\ items[j].ret = "None" => \E i \in 1..(j - 1) : IsResultItem(i)

\* next has returned None after a Result chunk while the stream held bytes
C1_Witness ==
    \E i, j \in 1..Len(items) :
        i < j /\ IsResultItem(i) /\ items[j].ret = "None" /\ items[j].left > 0

(* C2: once next has returned an error, every later call of next returns   *)
(* None and reads nothing from the stream.                                 *)
C2_ErrorEndsSequence ==
    \A i, j \in 1..Len(items) :
        (i < j /\ items[i].ret = "Err") => (items[j].ret = "None" /\ ~items[j].read)

(* C3: a subprocess that has been spawned and has no owner any more (the   *)
(* Connection was dropped, or construction failed after the spawn) has     *)
(* been sent a terminate signal.                                           *)
C3_OrphanTerminated ==
    (owner = "nobody" /\ pc \in {"failed", "dropped"}) => kills >= 1

(* C4: one handshake, before any command: construction reads one frame     *)
(* right after the spawn, no later operation reads another hello, and a    *)
(* command is written only on a connection whose hello was read and        *)
(* accepted.                                                               *)
C4_OneHandshakeFirst ==
    /\ helloReads <= 1
    /\ pc \in {"start", "hello"} => helloReads = 0
    /\ pc \in {"connected", "dropped", "panicked"}
          => helloReads = 1 /\ helloErr = "none" /\ encoding # None
    /\ pc \in {"start", "hello", "failed"}
          => cmds = 0 /\ lastCmd = NoCmd /\ ~iter.live
    /\ (cmds > 0 \/ lastCmd # NoCmd)
          => helloReads = 1 /\ helloErr = "none" /\ encoding # None

\* a command frame has been written, after the one handshake
C4_Witness == cmds = 1 /\ lastCmd.ret = "Ok" /\ lastCmd.wrote # <<>> /\ helloReads = 1

\* every hello text the subprocess may send, as its lines
HelloLineSeqs == SeqsUpTo(HelloLines, MaxHelloLines)

\* the frame of the output channel that carries the lines ls
HelloFrameOf == [ls \in HelloLineSeqs |-> Frame(b_o, HelloPayload(ls))]

\* the stream begins with a whole frame of the output channel that carries
\* the lines ls
HelloAtFront(stream, ls) == IsPrefix(HelloFrameOf[ls], stream)

\* line begins with key and ": "
HasKey(line, key) == IsPrefix(key \o <<b_colon, b_sp>>, line)
\* the tokens after the key of a line that has one
TokensOf(line, key) ==
    Range(split(SubSeq(line, Len(key) + 3, Len(line)), b_sp))
\* the stream begins with a whole hello on the output channel made of the
\* lines ls, which has an encoding line and a capabilities line, and no
\* capabilities line of which holds the token runcommand
HelloLacksRunCommand(stream, ls) ==
    /\ HelloAtFront(stream, ls)
    /\ \E i \in 1..Len(ls) : HasKey(ls[i], s_encoding)
    /\ \E i \in 1..Len(ls) : HasKey(ls[i], s_capabilities)
    /\ \A i \in 1..Len(ls) :
          HasKey(ls[i], s_capabilities)
             => s_runcommand \notin TokensOf(ls[i], s_capabilities)

(* C5: construction succeeds only with RunCommand in the capability set:   *)
(* a hello with an encoding line and a capabilities line that lacks the    *)
(* token runcommand fails construction with MissingRunCommand, and no      *)
(* Connection exists.                                                      *)
C5_RunCommandGate ==
    [][(pc = "hello" /\ pc' # "hello")
          => /\ pc' = "connected" => RunCommand \in capabilities'[1]
             /\ (\E ls \in HelloLineSeqs : HelloLacksRunCommand(out, ls))
                   => /\ pc' = "failed"
                      /\ helloErr' = "MissingRunCommand"
                      /\ owner' = "nobody"
                      /\ capabilities' = None]_vars

\* construction has failed for want of the runcommand capability
C5_Witness == pc = "failed" /\ helloErr = "MissingRunCommand" /\ capabilities = None

\* the frame read last took a tag and at least the four bytes after it
TookTagAndFour(tags) ==
    /\ lastRead.by # "none"
    /\ Len(lastRead.taken) >= 5
    /\ lastRead.taken[1] \in tags

(* C6: a frame with the tag r is decoded by reading 4 further bytes as a   *)
(* big-endian u32 and gives a Result chunk that carries this integer; five *)
(* bytes have been consumed ([r,0,0,0,0] gives Result(0)).                 *)
C6_ResultIsInteger ==
    TookTagAndFour({b_r})
       => /\ lastRead.res.st = "ok"
          /\ lastRead.res.chunk = IntChunk("Result", read_u32(SubSeq(lastRead.taken, 2, 5)))
          /\ lastRead.res.consumed = 5

\* the channel of the tags o, e and d
BufChannelOf(tag) ==
    CASE tag = b_o -> "Output" [] tag = b_e -> "Error" [] tag = b_d -> "Debug"

(* C7: for the tags o, e and d the frame reader reads a 4-byte big-endian  *)
(* length n and n payload bytes, gives Output, Error or Debug with exactly *)
(* these bytes and has consumed 1+4+n bytes; short of a premature end of   *)
(* the stream, nothing else happens.                                       *)
C7_LengthPrefixedFrames ==
    (/\ lastRead.by # "none"
     /\ lastRead.taken # <<>>
     /\ lastRead.taken[1] \in {b_o, b_e, b_d}
     /\ lastRead.res.st # "err")
       => /\ lastRead.res.st = "ok"
          /\ Len(lastRead.taken) >= 5
          /\ LET n == read_u32(SubSeq(lastRead.taken, 2, 5))
             IN  /\ lastRead.res.consumed = 1 + 4 + n
                 /\ Len(lastRead.taken) = 1 + 4 + n
                 /\ lastRead.res.chunk =
                       BufChunk(BufChannelOf(lastRead.taken[1]),
                                SubSeq(lastRead.taken, 6, 5 + n))

(* C8: a tag that is none of o, e, d, r, I, L makes the frame read return  *)
(* InvalidChannel with that byte, having consumed the one byte, and no     *)
(* bytes of the subprocess make a frame read or the handshake panic.       *)
C8_InvalidChannelIsError ==
    /\ (/\ lastRead.by # "none"
        /\ lastRead.taken # <<>>
        /\ lastRead.taken[1] \notin {b_o, b_e, b_d, b_r, b_I, b_L})
          => /\ lastRead.res.st = "err"
             /\ lastRead.res.err = [kind |-> "InvalidChannel", channel |-> lastRead.taken[1]]
             /\ lastRead.res.consumed = 1
    /\ pc = "panicked" => lastCmd.ret = "panic"

RECURSIVE JoinNul(_)
\* the arguments in order with one NUL between neighbours
JoinNul(command) ==
    IF command = <<>> THEN <<>>
    ELSE IF Len(command) = 1 THEN command[1]
    ELSE command[1] \o <<b_nul>> \o JoinNul(Tail(command))

RECURSIVE SumOfLengths(_)
SumOfLengths(command) ==
    IF command = <<>> THEN 0 ELSE Len(command[1]) + SumOfLengths(Tail(command))

\* field is the 4-byte big-endian unsigned integer n (n below 2^31)
IsU32(field, n) ==
    /\ Len(field) = 4 /\ n >= 0
    /\ field[1] < 128
    /\ field[1] * Pow2_24 + field[2] * Pow2_16 + field[3] * Pow2_8 + field[4] = n

(* C9: for every sequence of k arguments run_command writes "runcommand\n", *)
(* the 4-byte big-endian unsigned integer sum of the lengths + (k - 1),    *)
(* and the arguments with one NUL between neighbours; nothing else.        *)
C9_CommandFrame ==
    /\ lastCmd.ret # "panic"
    /\ lastCmd.ret = "Ok"
          => LET line == s_runcommand \o <<b_nl>>
                 k == Len(lastCmd.cmd)
                 blob == JoinNul(lastCmd.cmd)
                 w == lastCmd.wrote
             IN  /\ Len(w) = Len(line) + 4 + Len(blob)
                 /\ SubSeq(w, 1, Len(line)) = line
                 /\ IsU32(SubSeq(w, Len(line) + 1, Len(line) + 4),
                          SumOfLengths(lastCmd.cmd) + (k - 1))
                 /\ SubSeq(w, Len(line) + 5, Len(w)) = blob

\* the frame read last ended before its frame did: at the tag (stage 1), in
\* the four bytes after the tag (stage 2), in the payload (stage 3)
EndedInStage ==
    IF lastRead.taken = <<>> THEN 1
    ELSE IF Len(lastRead.taken) < 5 THEN 2
    ELSE 3

\* the frame read last failed at a premature end of the stream
EndedEarly ==
    /\ lastRead.by # "none"
    /\ lastRead.res.st = "err"
    /\ lastRead.res.err.kind # "InvalidChannel"

\* the frame read last returned a chunk and took exactly one whole frame
TookWholeFrame ==
    /\ Len(lastRead.taken) >= 5
    /\ lastRead.res.consumed = Len(lastRead.taken)
    /\ IF lastRead.taken[1] \in {b_I, b_L}
       THEN Len(lastRead.taken) = 5
       ELSE Len(lastRead.taken) = 5 + read_u32(SubSeq(lastRead.taken, 2, 5))

(* C10, as claimed: a premature end of the stream at the tag gives         *)
(* ReadChannel, in the 4-byte field after the tag ReadLength, in the       *)
(* payload ReadData; a chunk is returned only for a whole frame.           *)
C10_StageLabels ==
    /\ EndedEarly
          => lastRead.res.err.kind =
                CASE EndedInStage = 1 -> "ReadChannel"
                  [] EndedInStage = 2 -> "ReadLength"
                  [] EndedInStage = 3 -> "ReadData"
    /\ (lastRead.by # "none" /\ lastRead.res.st = "ok") => TookWholeFrame

(* C10, amended: as above for the frames of the channels o, e, d and r;    *)
(* for a frame of the channels I and L the end of the stream in the four   *)
(* bytes after the tag gives ReadData.                                     *)
C10_StageLabelsByChannel ==
    /\ EndedEarly
          => /\ lastRead.eof
             /\ lastRead.res.err.kind =
                CASE EndedInStage = 1 -> "ReadChannel"
                  [] EndedInStage = 2 /\ lastRead.taken[1] \in {b_I, b_L} -> "ReadData"
                  [] EndedInStage = 2 -> "ReadLength"
                  [] EndedInStage = 3 -> "ReadData"
    /\ (lastRead.by # "none" /\ lastRead.res.st = "ok") => TookWholeFrame

\* a frame read has ended in the length of a frame of the channels o, e, d, r
C10_Witness ==
    /\ EndedEarly /\ EndedInStage = 2
    /\ lastRead.taken[1] \in {b_o, b_e, b_d, b_r}
    /\ lastRead.res.err.kind = "ReadLength"

\* the step on which construction reads and judges the hello
HandshakeStep == pc = "hello" /\ pc' # "hello"

\* the channel of a tag
ChannelOfTag(tag) ==
    CASE tag = b_o -> "Output" [] tag = b_e -> "Error" [] tag = b_d -> "Debug"
      [] tag = b_r -> "Result" [] tag = b_I -> "Input" [] tag = b_L -> "LineInput"

\* the stream begins with a whole frame that has this tag: the tag and a
\* u32 for r, I and L, the tag, a length and as many bytes for o, e and d
WholeFrameAtFront(stream, tag) ==
    /\ Len(stream) >= 5
    /\ stream[1] = tag
    /\ tag \in {b_o, b_e, b_d}
          => Len(stream) >= 5 + read_u32(SubSeq(stream, 2, 5))

(* C11: when the frame that construction reads is on a channel other than  *)
(* Output (Error, Debug, Result, Input, LineInput), construction fails     *)
(* with the error InvalidChannel that names this channel, and no           *)
(* Connection is made.                                                     *)
C11_HelloOnOutput ==
    [][HandshakeStep
          => \A tag \in {b_e, b_d, b_r, b_I, b_L} :
                WholeFrameAtFront(out, tag)
                   => /\ pc' = "failed"
                      /\ helloErr' = "InvalidChannel"
                      /\ helloChannel' = ChannelOfTag(tag)
                      /\ owner' # "connection"
                      /\ encoding' = None /\ capabilities' = None]_vars

\* some line of ls has this key
SomeLineHasKey(ls, key) == \E i \in 1..Len(ls) : HasKey(ls[i], key)

\* construction has failed on this step with the error err; no Connection
FailsWith(err) ==
    /\ pc' = "failed"
    /\ helloErr' = err
    /\ owner' # "connection"
    /\ encoding' = None /\ capabilities' = None

(* C12: for every hello on the Output channel, construction fails with     *)
(* NoEncoding when the text has no line "encoding: ...", and with          *)
(* NoCapabilities when it has such a line and no line "capabilities: ..."; *)
(* no Connection is made in either case.                                   *)
C12_MissingFields ==
    [][HandshakeStep
          => \A ls \in HelloLineSeqs :
                HelloAtFront(out, ls)
                   => /\ ~SomeLineHasKey(ls, s_encoding) => FailsWith("NoEncoding")
                      /\ (/\ SomeLineHasKey(ls, s_encoding)
                          /\ ~SomeLineHasKey(ls, s_capabilities))
                            => FailsWith("NoCapabilities")]_vars

\* construction has failed for a hello without a capabilities line
C12_Witness == pc = "failed" /\ helloErr = "NoCapabilities" /\ owner = "nobody"

\* the capability a token stands for
Resolved(t) ==
    IF t = s_runcommand THEN [kind |-> "RunCommand", text |-> <<>>]
    ELSE IF t = s_getencoding THEN [kind |-> "GetEncoding", text |-> <<>>]
    ELSE [kind |-> "Unknown", text |-> t]

\* the text after the key and ": "
ValueOf(line, key) == SubSeq(line, Len(key) + 3, Len(line))

\* line has a key, which is neither capabilities nor encoding
HasOtherKey(line) ==
    /\ \E i \in 1..(Len(line) - 1) : line[i] = b_colon /\ line[i + 1] = b_sp
    /\ ~HasKey(line, s_capabilities)
    /\ ~HasKey(line, s_encoding)

\* ls has the capabilities line ls[c], with the token runcommand, the
\* encoding line ls[e], and otherwise only lines with other keys
HelloWithBoth(ls, c, e) ==
    /\ HasKey(ls[c], s_capabilities)
    /\ s_runcommand \in TokensOf(ls[c], s_capabilities)
    /\ HasKey(ls[e], s_encoding)
    /\ \A i \in 1..Len(ls) : i \notin {c, e} => HasOtherKey(ls[i])

(* C13: a hello with one line "capabilities: <tokens>" that has the token  *)
(* runcommand, one line "encoding: <E>" and any number of lines with other *)
(* keys makes construction succeed with the encoding E and with the set of *)
(* the capabilities the tokens stand for; the other lines change nothing.  *)
C13_HelloRoundTrip ==
    [][HandshakeStep
          => \A ls \in HelloLineSeqs :
                HelloAtFront(out, ls) =>
                   \A c, e \in 1..Len(ls) :
                      HelloWithBoth(ls, c, e) =>
                         /\ pc' = "connected"
                         /\ owner' = "connection"
                         /\ helloErr' = "none"
                         /\ encoding' = Some(ValueOf(ls[e], s_encoding))
                         /\ capabilities' =
                               Some({Resolved(t) :
                                       t \in TokensOf(ls[c], s_capabilities)})]_vars

\* a Connection with the encoding "UTF-8" and the set {RunCommand, GetEncoding}
C13_Witness ==
    /\ pc = "connected"
    /\ encoding = Some(s_utf8)
    /\ capabilities = Some({[kind |-> "RunCommand", text |-> <<>>],
                            [kind |-> "GetEncoding", text |-> <<>>]})

(* C14: the encoding and the capability set of a Connection are those of   *)
(* the handshake for good: no run_command, read_chunk or next, successful  *)
(* or failing, and no other step changes them once they are set, and a     *)
(* Connection always has both.                                             *)
C14_NegotiatedFixed ==
    [][/\ pc = "connected" => (encoding # None /\ capabilities # None)
       /\ encoding # None => encoding' = encoding
       /\ capabilities # None => capabilities' = capabilities]_vars

\* a Connection whose Response Sequence has returned a chunk and then an error
C14_Witness ==
    /\ pc = "connected" /\ encoding # None /\ capabilities # None
    /\ cmds > 0
    /\ \E i, j \in 1..Len(items) :
          i < j /\ items[i].ret = "Ok" /\ items[j].ret = "Err"

\* the tag of a channel
TagOfChannel(channel) ==
    CASE channel = "Output" -> b_o [] channel = "Error" -> b_e
      [] channel = "Debug" -> b_d [] channel = "Result" -> b_r
      [] channel = "Input" -> b_I [] channel = "LineInput" -> b_L

\* the bytes of the frame that carries chunk
WireOf(chunk) ==
    IF "buf" \in DOMAIN chunk
    THEN <<TagOfChannel(chunk.channel)>> \o write_u32(Len(chunk.buf)) \o chunk.buf
    ELSE <<TagOfChannel(chunk.channel)>> \o write_u32(chunk.val)

\* the frame read recorded after this step took its bytes from the front of
\* the stream, and a chunk it returned is that of exactly these bytes
ReadTookFront ==
    /\ lastRead'.by # "none"
    /\ out = lastRead'.taken \o out'
    /\ lastRead'.res.st = "ok" => WireOf(lastRead'.res.chunk) = lastRead'.taken

Tokens == {s_runcommand, s_getencoding, s_frob, s_foo, s_bar, s_junk, s_utf8, <<>>}

(* C16: the capability resolver is total: runcommand gives RunCommand,     *)
(* getencoding gives GetEncoding, every other token t gives Unknown(t)     *)
(* with its text, and two different unknown tokens give different          *)
(* capabilities; so the set of a Connection holds RunCommand, GetEncoding  *)
(* and Unknown of tokens that are neither.                                 *)
C16_ResolverTotal ==
    /\ \A t \in Tokens :
          Capability_from(t) =
             IF t = s_runcommand THEN [kind |-> "RunCommand", text |-> <<>>]
             ELSE IF t = s_getencoding THEN [kind |-> "GetEncoding", text |-> <<>>]
             ELSE [kind |-> "Unknown", text |-> t]
    /\ \A t, u \in Tokens \ {s_runcommand, s_getencoding} :
          t # u => Capability_from(t) # Capability_from(u)
    /\ capabilities # None
          => \A c \in capabilities[1] :
                \/ c = [kind |-> "RunCommand", text |-> <<>>]
                \/ c = [kind |-> "GetEncoding", text |-> <<>>]
                \/ /\ c.kind = "Unknown"
                   /\ c.text \in Tokens \ {s_runcommand, s_getencoding}

\* a Connection whose capability set holds the unknown token with its text
C16_Witness ==
    /\ pc = "connected"
    /\ capabilities = Some({[kind |-> "Unknown", text |-> s_frob],
                            [kind |-> "RunCommand", text |-> <<>>]})

(* C17: a frame with the tag I or L is decoded by reading 4 further bytes   *)
(* as a big-endian u32 and is returned as an Input or LineInput chunk that *)
(* carries this integer, 5 bytes having been consumed; when the stream     *)
(* holds the four bytes nothing else happens, and such a chunk does not    *)
(* end the Response Sequence: the call of next after it reads again.       *)
C17_InputSurfaced ==
    /\ (/\ lastRead.by # "none"
        /\ lastRead.taken # <<>>
        /\ lastRead.taken[1] \in {b_I, b_L}
        /\ Len(lastRead.taken) + Len(out) >= 5
        /\ lastRead.res.st # "err")
          => /\ lastRead.res.st = "ok"
             /\ Len(lastRead.taken) = 5
             /\ lastRead.res.consumed = 5
             /\ lastRead.res.chunk =
                   [channel |-> ChannelOfTag(lastRead.taken[1]),
                    val |-> read_u32(SubSeq(lastRead.taken, 2, 5))]
             /\ pc # "panicked"
    /\ \A i, j \in 1..Len(items) :
          (/\ j = i + 1
           /\ items[i].ret = "Ok"
           /\ items[i].what \in {"Input", "LineInput"}
           /\ \A k \in 1..i : ~IsResultItem(k))
             => items[j].read

(* C18: for every argument sequence, the empty one included, the length    *)
(* computation of run_command neither aborts nor wraps: the call does not  *)
(* panic, and whenever the 4-byte length field has been written it is the  *)
(* number of bytes of the blob of this command.                            *)
C18_LengthIsBlobLength ==
    lastCmd.ret # "none"
       => LET line == s_runcommand \o <<b_nl>>
              w == lastCmd.wrote
          IN  /\ lastCmd.ret # "panic"
              /\ Len(w) >= Len(line) + 4
                    => IsU32(SubSeq(w, Len(line) + 1, Len(line) + 4),
                             Len(JoinNul(lastCmd.cmd)))

\* the command frame of lastCmd but for the value of its length field
CommandLine == s_runcommand \o <<b_nl>>

WroteWholeFrame ==
    LET w == lastCmd.wrote
        n == Len(CommandLine)
    IN  /\ Len(w) = n + 4 + Len(JoinNul(lastCmd.cmd))
        /\ SubSeq(w, 1, n) = CommandLine
        /\ SubSeq(w, n + 5, Len(w)) = JoinNul(lastCmd.cmd)

WroteStrictPrefix ==
    LET w == lastCmd.wrote
        n == Len(CommandLine)
    IN  /\ Len(w) < n + 4 + Len(JoinNul(lastCmd.cmd))
        /\ Len(w) <= n => IsPrefix(w, CommandLine)
        /\ Len(w) > n => SubSeq(w, 1, n) = CommandLine
        /\ Len(w) > n + 4
              => IsPrefix(SubSeq(w, n + 5, Len(w)), JoinNul(lastCmd.cmd))

(* C20: run_command returns a Response Sequence only when the line, the    *)
(* length field and the blob were all written; when a write fails it       *)
(* returns the error and no Response Sequence, no byte of the response     *)
(* stream has been read since the call, and the bytes delivered to the     *)
(* subprocess are a strict prefix of the command frame.                    *)
C20_SequenceOnlyAfterWrites ==
    /\ (lastCmd.ret # "none" /\ iter.live)
          => lastCmd.ret = "Ok" /\ WroteWholeFrame
    /\ lastCmd.ret = "Ok" => iter.live
    /\ lastCmd.ret = "Err"
          => /\ ~iter.live
             /\ lastRead = NoRead
             /\ stale = Len(out)
             /\ WroteStrictPrefix

\* a call that failed in the blob, the line and the field having been written
C20_Witness ==
    /\ lastCmd.ret = "Err"
    /\ Len(lastCmd.wrote) > Len(CommandLine) + 4
    /\ ~iter.live

\* a call of next yields a chunk
YieldsChunk ==
    /\ iter.live
    /\ Len(items') = Len(items) + 1
    /\ items'[Len(items')].ret = "Ok"

(* C19: every chunk a Response Sequence yields is a frame the subprocess    *)
(* wrote in answer to the command of this sequence: at the yield no byte   *)
(* that was in the stream before the command was written is left, whatever *)
(* became of the sequences of earlier commands.                            *)
C19_OwnFramesOnly == [][YieldsChunk => stale = 0]_vars

====
